---- MODULE Spec2Model ----
(***************************************************************************)
(* The chouten command line host (src/main.rs): argument validation, the   *)
(* V8 bootstrap, the two host capabilities (console.log and request), the  *)
(* plugin loader, the verb dispatcher, the promise wrapper and the final   *)
(* print.  Text that the program builds or inspects (the URL, the call     *)
(* expression, JSON, header values) is a sequence of one-character         *)
(* strings; text that it only compares or prints whole is a string.        *)
(***************************************************************************)
EXTENDS Integers, Sequences, FiniteSets, TLC

VARIABLES
  args,         \* env::args(): <<program, filename, option, url, ...>>
  fileReadable, \* the environment: can fs::read_to_string read the plugin file
  pc,           \* position of main/run
  params,       \* the Params value built by Params::new
  fileRead,     \* fs::read_to_string was called
  engineInit,   \* V8 platform, isolate and context exist
  globals,      \* names set on the context's global object
  compiled,     \* scripts handed to v8::Script::compile so far, in order
  js,           \* which script code is on the stack: none, top, ctor, method, cont
  function_name,\* the call expression built by the dispatcher
  methodPromise,\* the promise returned by instance.<method>(...)
  wrapperPromise,\* the promise made by the wrapper expression (run's `result`)
  outerPromise, \* the promise of run's PromiseResolver
  microtasks,   \* the isolate's microtask queue
  hostCalls,    \* capability calls and awaits the plugin has made (bounded)
  lastCall,     \* the last capability call and what the script got back
  stdout,       \* lines printed on standard output, in order
  printed,      \* run reached its final println!
  exitCode,     \* process exit status, NoExit while running
  exitReason,   \* which code path ended the process
  bridge        \* one call of the request capability, for the bridge specification

vars == <<args, fileReadable, pc, params, fileRead, engineInit, globals, compiled,
          js, function_name, methodPromise, wrapperPromise, outerPromise,
          microtasks, hostCalls, lastCall, stdout, printed, exitCode, exitReason,
          bridge>>

-----------------------------------------------------------------------------
(* Bounds of the model *)

MaxArgs == 5
MaxUrlLen == 1
MaxHostCalls == 2
MaxHeaders == 2

-----------------------------------------------------------------------------
(* Text *)

SeqsUpTo(S, n) == UNION {[1..k -> S] : k \in 0..n}

Last(s) == s[Len(s)]

RECURSIVE Count(_, _)
Count(c, s) == IF s = <<>> THEN 0
               ELSE (IF s[1] = c THEN 1 ELSE 0) + Count(c, Tail(s))

Quote == "'"

UrlAlphabet == {"a", Quote}
Urls == SeqsUpTo(UrlAlphabet, MaxUrlLen)

Filename == "plugin.js"
Program == "chouten"
Extra == "extra"

Verbs == {"--discover", "--search", "--info", "--media", "--servers", "--sources"}
UrlVerbs == Verbs \ {"--discover"}
Options == Verbs \cup {"--bogus"}

\* a line of standard output: the println! format string and its argument
Line(fmt, arg) == [fmt |-> fmt, arg |-> arg]

\* the usage error of Params::new, printed by main with "{}"
UsageMessage == "usage: chouten <filename> <option> <url?>"
UsageLine == Line("{}", <<UsageMessage>>)

NoExit == -1
ExitOk == 0
\* variant: the error paths exit with the success status
ExitError_Success == ExitOk
ExitError == 1
ExitPanic == 101
ExitAbort == 134

-----------------------------------------------------------------------------
(* Params::new *)

None == [some |-> FALSE, v |-> <<>>]
Some(v) == [some |-> TRUE, v |-> v]

\* args.get(3).cloned()
ArgsGet3(a) == IF Len(a) >= 4 THEN Some(a[4]) ELSE None

ParamsErr == [ok |-> FALSE, filename |-> "", option |-> "", url |-> None]

\* variant: the url count check left out
ParamsNew_NoUrlCheck(a) ==
  IF Len(a) < 3 THEN ParamsErr
  ELSE [ok |-> TRUE, filename |-> a[2], option |-> a[3], url |-> ArgsGet3(a)]

ParamsNew(a) ==
  IF Len(a) < 3 THEN ParamsErr
  ELSE IF a[3] # "--discover" /\ Len(a) # 4 THEN ParamsErr
  ELSE [ok |-> TRUE, filename |-> a[2], option |-> a[3], url |-> ArgsGet3(a)]

-----------------------------------------------------------------------------
(* The verb dispatcher: the match of run *)

Chars_discover == <<"d","i","s","c","o","v","e","r">>
Chars_search == <<"s","e","a","r","c","h">>
Chars_info == <<"i","n","f","o">>
Chars_media == <<"m","e","d","i","a">>
Chars_servers == <<"s","e","r","v","e","r","s">>
Chars_sources == <<"s","o","u","r","c","e","s">>

\* variant: the value spliced without the quotes
FormatCall_Unquoted(name, value) == name \o <<"(">> \o value \o <<")">>

\* format!("<name>('{}')", value)
FormatCall(name, value) == name \o <<"(", Quote>> \o value \o <<Quote, ")">>

DispatchOk(text) == [ok |-> TRUE, text |-> text, message |-> ""]
DispatchExit(message) == [ok |-> FALSE, text |-> <<>>, message |-> message]

Dispatch(p) ==
  CASE p.option = "--discover" -> DispatchOk(Chars_discover \o <<"(", ")">>)
    [] p.option = "--search" ->
         IF p.url.some THEN DispatchOk(FormatCall(Chars_search, p.url.v))
         ELSE DispatchExit("URL is required for --search option.")
    [] p.option = "--info" ->
         IF p.url.some THEN DispatchOk(FormatCall(Chars_info, p.url.v))
         ELSE DispatchExit("URL is required for --info option.")
    [] p.option = "--media" ->
         IF p.url.some THEN DispatchOk(FormatCall(Chars_media, p.url.v))
         ELSE DispatchExit("URL is required for --media option.")
    [] p.option = "--servers" ->
         IF p.url.some THEN DispatchOk(FormatCall(Chars_servers, p.url.v))
         ELSE DispatchExit("URL is required for --servers option.")
    [] p.option = "--sources" ->
         IF p.url.some THEN DispatchOk(FormatCall(Chars_sources, p.url.v))
         ELSE DispatchExit("URL is required for --sources option.")
    [] OTHER -> DispatchExit("No option found.")

-----------------------------------------------------------------------------
(* Script values as the host sees them *)

JSString(s) == [t |-> "string", s |-> s]
JSUndefined == [t |-> "undefined", s |-> <<>>]
JSSymbol == [t |-> "symbol", s |-> <<>>]
JSError == [t |-> "error", s |-> <<>>]
\* an object whose toString throws
JSThrowing == [t |-> "throwing", s |-> <<>>]
JSPromiseObject == [t |-> "promise", s |-> <<>>]

Chars_undefined == <<"u","n","d","e","f","i","n","e","d">>
Chars_Error == <<"E","r","r","o","r">>
Chars_ObjectPromise == <<"[","o","b","j","e","c","t"," ","P","r","o","m","i","s","e","]">>

\* v8::Value::to_string: None when the coercion throws
ValueToString(v) ==
  CASE v.t = "string" -> Some(v.s)
    [] v.t = "undefined" -> Some(Chars_undefined)
    [] v.t = "error" -> Some(Chars_Error)
    [] v.t = "promise" -> Some(Chars_ObjectPromise)
    [] OTHER -> None

-----------------------------------------------------------------------------
(* JSON.stringify, as the wrapper expression applies it to the resolved data *)

DNull == [t |-> "null"]
DNum(n) == [t |-> "number", n |-> n]
DStr(s) == [t |-> "string", s |-> s]
DArr(items) == [t |-> "array", items |-> items]
DObj(keys, vals) == [t |-> "object", keys |-> keys, vals |-> vals]
DUndefined == [t |-> "undefined"]

Digit(n) == <<"0","1","2","3","4","5","6","7","8","9">>[n + 1]

RECURSIVE EscapeJSON(_)
EscapeJSON(s) ==
  IF s = <<>> THEN <<>>
  ELSE (IF s[1] \in {"\"", "\\"} THEN <<"\\", s[1]>> ELSE <<s[1]>>)
       \o EscapeJSON(Tail(s))

QuoteJSON(s) == <<"\"">> \o EscapeJSON(s) \o <<"\"">>

RECURSIVE SerializeJSON(_)
RECURSIVE SerializeItems(_, _)
RECURSIVE SerializeMembers(_, _, _)
SerializeJSON(d) ==
  CASE d.t = "null" -> <<"n","u","l","l">>
    [] d.t = "number" -> <<Digit(d.n)>>
    [] d.t = "string" -> QuoteJSON(d.s)
    [] d.t = "array" -> <<"[">> \o SerializeItems(d.items, 1) \o <<"]">>
    [] d.t = "object" -> <<"{">> \o SerializeMembers(d.keys, d.vals, 1) \o <<"}">>
SerializeItems(items, i) ==
  IF i > Len(items) THEN <<>>
  ELSE (IF i > 1 THEN <<",">> ELSE <<>>) \o SerializeJSON(items[i])
       \o SerializeItems(items, i + 1)
SerializeMembers(keys, vals, i) ==
  IF i > Len(keys) THEN <<>>
  ELSE (IF i > 1 THEN <<",">> ELSE <<>>) \o QuoteJSON(keys[i]) \o <<":">>
       \o SerializeJSON(vals[i]) \o SerializeMembers(keys, vals, i + 1)

\* JSON.stringify(data): a string, or undefined when data is undefined
JSONstringify(d) ==
  IF d.t = "undefined" THEN JSUndefined ELSE JSString(SerializeJSON(d))

\* what plugin methods resolve to in the model, by name
DataIds == {"null", "one", "x", "xy", "a1", "undefined"}
JsonIds == DataIds \ {"undefined"}
Data(id) ==
  CASE id = "null" -> DNull
    [] id = "one" -> DNum(1)
    [] id = "x" -> DStr(<<"x">>)
    [] id = "xy" -> DArr(<<DStr(<<"x">>), DStr(<<"y">>)>>)
    [] id = "a1" -> DObj(<<(<<"a">>)>>, <<DNum(1)>>)
    [] OTHER -> DUndefined

-----------------------------------------------------------------------------
(* The host effect bridge: send_request_async and create_v8_response_object *)

Chars_GET == <<"G","E","T">>
Chars_POST == <<"P","O","S","T">>
Chars_PUT == <<"P","U","T">>
Chars_InternalServerError ==
  <<"I","n","t","e","r","n","a","l"," ","S","e","r","v","e","r"," ","E","r","r","o","r">>
Chars_TextPlain == <<"t","e","x","t","/","p","l","a","i","n">>

StatusInternalServerError == 500

ContentTypeName == "content-type"
HeaderNames == {ContentTypeName, "x-a"}
\* a header value as the transport delivers it: bytes that are visible ASCII
\* text, or bytes that are not
HeaderValues == {[visible |-> TRUE, text |-> <<"v">>],
                 [visible |-> TRUE, text |-> <<"w">>],
                 [visible |-> FALSE, text |-> <<"?">>]}
WireHeaders == [name : HeaderNames, value : HeaderValues]

TransportErr == [ok |-> FALSE, status |-> 0, headers |-> <<>>, body |-> <<>>]
TransportOk(status, headers, body) ==
  [ok |-> TRUE, status |-> status, headers |-> headers, body |-> body]

\* HeaderValue::to_str: Err unless every byte is visible ASCII
ToStr(value) == IF value.visible THEN Some(value.text) ELSE None

UnwrapOr(opt, default) == IF opt.some THEN opt.v ELSE default

RECURSIVE DistinctNames(_, _)
DistinctNames(wire, seen) ==
  IF wire = <<>> THEN <<>>
  ELSE IF wire[1].name \in seen THEN DistinctNames(Tail(wire), seen)
  ELSE <<wire[1].name>> \o DistinctNames(Tail(wire), seen \cup {wire[1].name})

ValuesOf(wire, name) == SelectSeq(wire, LAMBDA h : h.name = name)

RECURSIVE IterNames(_, _)
IterNames(names, wire) ==
  IF names = <<>> THEN <<>>
  ELSE ValuesOf(wire, names[1]) \o IterNames(Tail(names), wire)

\* response.headers().iter(): one item per value, the values of a name together
\* and in the order they arrived
HeaderMapIter(wire) == IterNames(DistinctNames(wire, {}), wire)

\* response.headers().get(name): the first value of the name
HeaderMapGet(wire, name) ==
  IF ValuesOf(wire, name) = <<>> THEN [some |-> FALSE, v |-> [visible |-> TRUE, text |-> <<>>]]
  ELSE [some |-> TRUE, v |-> ValuesOf(wire, name)[1].value]

EmptyMap == [k \in {} |-> <<>>]

\* variant: an existing key keeps its value
MapInsert_KeepFirst(m, key, value) ==
  [k \in DOMAIN m \cup {key} |-> IF k \in DOMAIN m THEN m[k] ELSE value]

\* HashMap::insert
MapInsert(m, key, value) ==
  [k \in DOMAIN m \cup {key} |-> IF k = key THEN value ELSE m[k]]

RECURSIVE CollectHeaders(_, _)
CollectHeaders(m, items) ==
  IF items = <<>> THEN m
  ELSE CollectHeaders(MapInsert(m, items[1].name, UnwrapOr(ToStr(items[1].value), <<>>)),
                      Tail(items))

ContentTypeOf(wire) ==
  LET got == HeaderMapGet(wire, ContentTypeName)
  IN IF got.some THEN UnwrapOr(ToStr(got.v), <<>>) ELSE <<>>

\* variant: the failure response built without its body
DegradedResponse_NoBody ==
  [status_code |-> StatusInternalServerError,
   body |-> <<>>,
   content_type |-> Chars_TextPlain,
   headers |-> EmptyMap]

DegradedResponse ==
  [status_code |-> StatusInternalServerError,
   body |-> Chars_InternalServerError,
   content_type |-> Chars_TextPlain,
   headers |-> EmptyMap]

NoResponse == [status_code |-> 0, body |-> <<>>, content_type |-> <<>>, headers |-> EmptyMap]

\* send_request_async: panics on a method other than GET and POST, prints a
\* line when the transport fails
SendRequestAsync(url, method, transport) ==
  IF method \notin {Chars_GET, Chars_POST}
  THEN [panic |-> TRUE, response |-> NoResponse, out |-> <<>>]
  ELSE IF transport.ok
  THEN [panic |-> FALSE,
        response |-> [status_code |-> transport.status,
                      body |-> transport.body,
                      content_type |-> ContentTypeOf(transport.headers),
                      headers |-> CollectHeaders(EmptyMap, HeaderMapIter(transport.headers))],
        out |-> <<>>]
  ELSE [panic |-> FALSE, response |-> DegradedResponse,
        out |-> <<Line("Request failed: {}", <<>>)>>]

\* create_v8_response_object: one property per field, one per header
CreateV8ResponseObject(response) ==
  [statusCode |-> response.status_code,
   body |-> response.body,
   contentType |-> response.content_type,
   headers |-> [k \in DOMAIN response.headers |-> response.headers[k]]]

NoObject == CreateV8ResponseObject(NoResponse)

\* send_request_handler: what the script gets back, whether the host panicked,
\* and the lines printed
SendRequestHandler(urlArg, methodArg, transport) ==
  LET called == <<Line("request handler called.", <<>>)>>
      url == ValueToString(urlArg)
      method == ValueToString(methodArg)
  IN IF ~url.some \/ ~method.some
     THEN [panic |-> TRUE, ret |-> NoObject, out |-> called]
     ELSE LET r == SendRequestAsync(url.v, method.v, transport)
          IN [panic |-> r.panic,
              ret |-> CreateV8ResponseObject(r.response),
              out |-> called \o r.out]

\* log_handler
LogHandler(arg) ==
  LET message == ValueToString(arg)
  IN IF ~message.some THEN [panic |-> TRUE, out |-> <<>>]
     ELSE [panic |-> FALSE, out |-> <<Line("JavaScript console.log: {}", message.v)>>]

-----------------------------------------------------------------------------
(* Promises and the microtask queue of the isolate *)

NoPromise == [status |-> "none", value |-> JSUndefined, reactions |-> <<>>]
PendingPromise == [status |-> "pending", value |-> JSUndefined, reactions |-> <<>>]

\* settle a promise: its registered reactions become microtasks
Settled(p, status, value) == [status |-> status, value |-> value, reactions |-> <<>>]

\* p.then(...) with reaction job `job`: queued at once when p is settled,
\* registered on p otherwise
ThenQueue(p, job) == IF p.status = "pending" THEN <<>> ELSE <<job>>
ThenPromise(p, job) ==
  IF p.status = "pending" THEN [p EXCEPT !.reactions = @ \o <<job>>] ELSE p

\* variant: the promise object read in place of its result
PromiseResult_Object(p) == JSPromiseObject

\* promise.result(scope)
PromiseResult(p) == p.value

\* the compile of the wrapper expression: with the URL spliced between single
\* quotes, a quote inside the URL ends the literal early and the text that
\* follows is not an expression
WrapperCompiles(expr) == Count(Quote, expr) <= 2

-----------------------------------------------------------------------------
(* Inputs the plugin and the environment choose *)

LogArgs == {JSString(<<"m">>), JSUndefined, JSSymbol, JSThrowing}
RequestUrlArgs == {JSString(<<"u">>), JSSymbol}
RequestMethodArgs == {JSString(Chars_GET), JSString(Chars_POST), JSString(Chars_PUT)}
RunTransports ==
  {TransportErr,
   TransportOk(200, <<[name |-> ContentTypeName,
                       value |-> [visible |-> TRUE, text |-> <<"v">>]]>>, <<"b">>)}
Reasons == {JSError, JSSymbol}

NoCall == [fn |-> "none", arg |-> JSUndefined, method |-> JSUndefined,
           transportOk |-> FALSE, panic |-> FALSE, ret |-> NoObject]

BridgeIdle == [stage |-> "idle", url |-> JSUndefined, method |-> JSUndefined,
               transport |-> TransportErr, panic |-> FALSE, ret |-> NoObject,
               out |-> <<>>]

ArgLists ==
  {<<Program>>, <<Program, Filename>>}
  \cup {<<Program, Filename, o>> : o \in Options}
  \cup {<<Program, Filename, o, u>> \o [i \in 1..k |-> Extra] :
          o \in Options, u \in Urls, k \in 0..(MaxArgs - 4)}

-----------------------------------------------------------------------------
(* The run *)

Init ==
  /\ args \in ArgLists
  /\ fileReadable \in BOOLEAN
  /\ pc = "main"
  /\ params = ParamsErr
  /\ fileRead = FALSE
  /\ engineInit = FALSE
  /\ globals = {}
  /\ compiled = <<>>
  /\ js = "none"
  /\ function_name = <<>>
  /\ methodPromise = NoPromise
  /\ wrapperPromise = NoPromise
  /\ outerPromise = NoPromise
  /\ microtasks = <<>>
  /\ hostCalls = 0
  /\ lastCall = NoCall
  /\ stdout = <<>>
  /\ printed = FALSE
  /\ exitCode = NoExit
  /\ exitReason = "none"
  /\ bridge = BridgeIdle

\* the process ends with `code` after printing `lines`
Exit(code, reason, lines) ==
  /\ pc' = "exit"
  /\ js' = "none"
  /\ exitCode' = code
  /\ exitReason' = reason
  /\ stdout' = stdout \o lines

\* a Rust panic (an unwrap of None, an expect of Err, panic!): exit status 101
\* when the build unwinds, an abort when it is built to abort or when the
\* panic is raised inside a callback that V8 called through C frames
Panic(reason, lines) ==
  \E code \in {ExitPanic, ExitAbort} : Exit(code, reason, lines)

\* main: Params::new and its unwrap_or_else
Main ==
  /\ pc = "main"
  /\ LET p == ParamsNew(args)
     IN IF p.ok
        THEN /\ params' = p
             /\ pc' = "read"
             /\ UNCHANGED <<js, exitCode, exitReason, stdout>>
        ELSE /\ Exit(ExitError, "usage", <<UsageLine>>)
             /\ UNCHANGED params
  /\ UNCHANGED <<args, fileReadable, fileRead, engineInit, globals, compiled,
                 function_name, methodPromise, wrapperPromise, outerPromise,
                 microtasks, hostCalls, lastCall, printed, bridge>>

\* run: fs::read_to_string(...).expect(...)
ReadFile ==
  /\ pc = "read"
  /\ fileRead' = TRUE
  /\ IF fileReadable
     THEN /\ pc' = "bootstrap"
          /\ UNCHANGED <<js, exitCode, exitReason, stdout>>
     ELSE Panic("file", <<>>)
  /\ UNCHANGED <<args, fileReadable, params, engineInit, globals, compiled,
                 function_name, methodPromise, wrapperPromise, outerPromise,
                 microtasks, hostCalls, lastCall, printed, bridge>>

\* run: platform, isolate, handle scope, context
Bootstrap ==
  /\ pc = "bootstrap"
  /\ engineInit' = TRUE
  /\ pc' = "console"
  /\ UNCHANGED <<args, fileReadable, params, fileRead, globals, compiled, js,
                 function_name, methodPromise, wrapperPromise, outerPromise,
                 microtasks, hostCalls, lastCall, stdout, printed, exitCode,
                 exitReason, bridge>>

\* run: global.set("console", {log: log_handler})
InjectConsole ==
  /\ pc = "console"
  /\ globals' = globals \cup {"console"}
  /\ pc' = "load"
  /\ UNCHANGED <<args, fileReadable, params, fileRead, engineInit, compiled, js,
                 function_name, methodPromise, wrapperPromise, outerPromise,
                 microtasks, hostCalls, lastCall, stdout, printed, exitCode,
                 exitReason, bridge>>

\* run: compile the plugin source and start running it; a source that does
\* not compile makes the unwrap panic
LoadPlugin ==
  /\ pc = "load"
  /\ compiled' = Append(compiled, "plugin")
  /\ \E compiles \in BOOLEAN :
       IF compiles
       THEN /\ pc' = "loading"
            /\ js' = "top"
            /\ UNCHANGED <<exitCode, exitReason, stdout>>
       ELSE Panic("compile", <<>>)
  /\ UNCHANGED <<args, fileReadable, params, fileRead, engineInit, globals,
                 function_name, methodPromise, wrapperPromise, outerPromise,
                 microtasks, hostCalls, lastCall, printed, bridge>>

\* run: global.set("request", send_request_handler)
InjectRequest ==
  /\ pc = "request"
  /\ globals' = globals \cup {"request"}
  /\ pc' = "instantiate"
  /\ UNCHANGED <<args, fileReadable, params, fileRead, engineInit, compiled, js,
                 function_name, methodPromise, wrapperPromise, outerPromise,
                 microtasks, hostCalls, lastCall, stdout, printed, exitCode,
                 exitReason, bridge>>

\* run: compile and start "const instance = new source.default();"
Instantiate ==
  /\ pc = "instantiate"
  /\ compiled' = Append(compiled, "init")
  /\ pc' = "instantiating"
  /\ js' = "ctor"
  /\ UNCHANGED <<args, fileReadable, params, fileRead, engineInit, globals,
                 function_name, methodPromise, wrapperPromise, outerPromise,
                 microtasks, hostCalls, lastCall, stdout, printed, exitCode,
                 exitReason, bridge>>

\* run: the match on params.option
DispatchVerb ==
  /\ pc = "dispatch"
  /\ LET d == Dispatch(params)
     IN IF d.ok
        THEN /\ function_name' = d.text
             /\ pc' = "invoke"
             /\ UNCHANGED <<js, exitCode, exitReason, stdout>>
        ELSE /\ Exit(ExitError,
                     IF d.message = "No option found." THEN "option" ELSE "url",
                     <<Line(d.message, <<>>)>>)
             /\ UNCHANGED function_name
  /\ UNCHANGED <<args, fileReadable, params, fileRead, engineInit, globals,
                 compiled, methodPromise, wrapperPromise, outerPromise,
                 microtasks, hostCalls, lastCall, printed, bridge>>

\* run: compile the wrapper expression and start running it: the executor of
\* new Promise calls instance.<function_name>
Invoke ==
  /\ pc = "invoke"
  /\ compiled' = Append(compiled, "wrapper")
  /\ IF WrapperCompiles(function_name)
     THEN /\ pc' = "invoking"
          /\ js' = "method"
          /\ wrapperPromise' = PendingPromise
          /\ UNCHANGED <<exitCode, exitReason, stdout>>
     ELSE /\ Panic("compile", <<>>)
          /\ UNCHANGED wrapperPromise
  /\ UNCHANGED <<args, fileReadable, params, fileRead, engineInit, globals,
                 function_name, methodPromise, outerPromise, microtasks,
                 hostCalls, lastCall, printed, bridge>>

-----------------------------------------------------------------------------
(* Script code running: the plugin's top level, its constructor, the selected *)
(* method, and the method's continuations after an await                      *)

JSData(id) == [t |-> "data", s |-> <<id>>]

\* the script calls console.log(v)
ScriptLog ==
  /\ js # "none"
  /\ "console" \in globals
  /\ hostCalls < MaxHostCalls
  /\ \E v \in LogArgs :
       LET r == LogHandler(v)
       IN /\ lastCall' = [NoCall EXCEPT !.fn = "log", !.arg = v, !.panic = r.panic]
          /\ IF r.panic
             THEN Panic("callback", r.out)
             ELSE /\ stdout' = stdout \o r.out
                  /\ UNCHANGED <<pc, js, exitCode, exitReason>>
  /\ hostCalls' = hostCalls + 1
  /\ UNCHANGED <<args, fileReadable, params, fileRead, engineInit, globals,
                 compiled, function_name, methodPromise, wrapperPromise,
                 outerPromise, microtasks, printed, bridge>>

\* the script calls request(u, m); the transport answers t
ScriptRequest ==
  /\ js # "none"
  /\ "request" \in globals
  /\ hostCalls < MaxHostCalls
  /\ \E u \in RequestUrlArgs, m \in RequestMethodArgs, t \in RunTransports :
       LET r == SendRequestHandler(u, m, t)
       IN /\ lastCall' = [fn |-> "request", arg |-> u, method |-> m,
                          transportOk |-> t.ok, panic |-> r.panic, ret |-> r.ret]
          /\ IF r.panic
             THEN Panic("callback", r.out)
             ELSE /\ stdout' = stdout \o r.out
                  /\ UNCHANGED <<pc, js, exitCode, exitReason>>
  /\ hostCalls' = hostCalls + 1
  /\ UNCHANGED <<args, fileReadable, params, fileRead, engineInit, globals,
                 compiled, function_name, methodPromise, wrapperPromise,
                 outerPromise, microtasks, printed, bridge>>

\* the script calls request while the global object has no such name: a
\* ReferenceError ends script.run with None, and run's unwrap panics
ScriptCallsMissingRequest ==
  /\ js = "top"
  /\ "request" \notin globals
  /\ Panic("script", <<>>)
  /\ UNCHANGED <<args, fileReadable, params, fileRead, engineInit, globals,
                 compiled, function_name, methodPromise, wrapperPromise,
                 outerPromise, microtasks, hostCalls, lastCall, printed, bridge>>

\* script.run(scope).unwrap() of the plugin source or of the instantiation
\* statement returns
ScriptReturn ==
  /\ js \in {"top", "ctor"}
  /\ pc' = IF js = "top" THEN "request" ELSE "dispatch"
  /\ js' = "none"
  /\ UNCHANGED <<args, fileReadable, params, fileRead, engineInit, globals,
                 compiled, function_name, methodPromise, wrapperPromise,
                 outerPromise, microtasks, hostCalls, lastCall, stdout, printed,
                 exitCode, exitReason, bridge>>

\* the plugin's top level or constructor throws: script.run gives None and the
\* unwrap panics
ScriptThrow ==
  /\ js \in {"top", "ctor"}
  /\ Panic("script", <<>>)
  /\ UNCHANGED <<args, fileReadable, params, fileRead, engineInit, globals,
                 compiled, function_name, methodPromise, wrapperPromise,
                 outerPromise, microtasks, hostCalls, lastCall, printed, bridge>>

\* the method returns a promise that is already fulfilled or rejected; the
\* wrapper chains .then(...).catch(...) on it and script.run returns
MethodReturnsSettled ==
  /\ js = "method"
  /\ \E p \in {Settled(PendingPromise, "fulfilled", JSData(d)) : d \in DataIds}
              \cup {Settled(PendingPromise, "rejected", r) : r \in Reasons} :
       /\ methodPromise' = p
       /\ microtasks' = microtasks \o ThenQueue(p, "react_method")
  /\ js' = "none"
  /\ pc' = "checkpoint1"
  /\ UNCHANGED <<args, fileReadable, params, fileRead, engineInit, globals,
                 compiled, function_name, wrapperPromise, outerPromise,
                 hostCalls, lastCall, stdout, printed, exitCode, exitReason,
                 bridge>>

\* the method returns a pending promise: an async method suspended at an await
\* (its continuation is a microtask), or a promise nothing will settle
MethodReturnsPending ==
  /\ js = "method"
  /\ \E awaits \in BOOLEAN :
       /\ awaits => hostCalls < MaxHostCalls
       /\ hostCalls' = IF awaits THEN hostCalls + 1 ELSE hostCalls
       /\ microtasks' = microtasks \o (IF awaits THEN <<"cont">> ELSE <<>>)
  /\ methodPromise' = ThenPromise(PendingPromise, "react_method")
  /\ js' = "none"
  /\ pc' = "checkpoint1"
  /\ UNCHANGED <<args, fileReadable, params, fileRead, engineInit, globals,
                 compiled, function_name, wrapperPromise, outerPromise,
                 lastCall, stdout, printed, exitCode, exitReason, bridge>>

\* the method throws, or returns something with no then: the executor throws
\* and new Promise rejects the wrapper promise with what was thrown
MethodThrows ==
  /\ js = "method"
  /\ \E r \in Reasons : wrapperPromise' = Settled(wrapperPromise, "rejected", r)
  /\ js' = "none"
  /\ pc' = "checkpoint1"
  /\ UNCHANGED <<args, fileReadable, params, fileRead, engineInit, globals,
                 compiled, function_name, methodPromise, outerPromise,
                 microtasks, hostCalls, lastCall, stdout, printed, exitCode,
                 exitReason, bridge>>

\* a continuation of the async method returns or throws: its promise settles
ContSettles ==
  /\ js = "cont"
  /\ \E st \in {"fulfilled", "rejected"} :
       \E v \in IF st = "fulfilled" THEN {JSData(d) : d \in DataIds} ELSE Reasons :
         methodPromise' = Settled(methodPromise, st, v)
  /\ microtasks' = microtasks \o methodPromise.reactions
  /\ js' = "none"
  /\ UNCHANGED <<args, fileReadable, pc, params, fileRead, engineInit, globals,
                 compiled, function_name, wrapperPromise, outerPromise,
                 hostCalls, lastCall, stdout, printed, exitCode, exitReason,
                 bridge>>

\* a continuation awaits again: the next continuation is a microtask
ContAwaits ==
  /\ js = "cont"
  /\ hostCalls < MaxHostCalls
  /\ hostCalls' = hostCalls + 1
  /\ microtasks' = microtasks \o <<"cont">>
  /\ js' = "none"
  /\ UNCHANGED <<args, fileReadable, pc, params, fileRead, engineInit, globals,
                 compiled, function_name, methodPromise, wrapperPromise,
                 outerPromise, lastCall, stdout, printed, exitCode, exitReason,
                 bridge>>

\* a continuation awaits a promise that nothing settles
ContHangs ==
  /\ js = "cont"
  /\ js' = "none"
  /\ UNCHANGED <<args, fileReadable, pc, params, fileRead, engineInit, globals,
                 compiled, function_name, methodPromise, wrapperPromise,
                 outerPromise, microtasks, hostCalls, lastCall, stdout, printed,
                 exitCode, exitReason, bridge>>

-----------------------------------------------------------------------------
(* The microtask checkpoint V8 performs when script.run and resolver.resolve *)
(* return to the host at call depth zero (the isolate is created with the    *)
(* default, automatic microtask policy)                                       *)

RunMicrotask ==
  /\ pc \in {"checkpoint1", "checkpoint2"}
  /\ js = "none"
  /\ microtasks # <<>>
  /\ LET job == Head(microtasks)
         rest == Tail(microtasks)
     IN CASE job = "cont" ->
               \* resume the async method
               /\ js' = "cont"
               /\ microtasks' = rest
               /\ UNCHANGED <<wrapperPromise, outerPromise>>
          [] job = "react_method" /\ methodPromise.status = "fulfilled" ->
               \* data => resolve(JSON.stringify(data))
               /\ wrapperPromise' =
                    Settled(wrapperPromise, "fulfilled",
                            JSONstringify(Data(methodPromise.value.s[1])))
               /\ microtasks' = rest \o wrapperPromise.reactions
               /\ UNCHANGED <<js, outerPromise>>
          [] job = "react_method" /\ methodPromise.status = "rejected" ->
               \* .then has no rejection handler: the rejection passes to .catch
               /\ microtasks' = rest \o <<"catch_error">>
               /\ UNCHANGED <<js, wrapperPromise, outerPromise>>
          [] job = "catch_error" ->
               \* error => reject(error)
               /\ wrapperPromise' =
                    Settled(wrapperPromise, "rejected", methodPromise.value)
               /\ microtasks' = rest \o wrapperPromise.reactions
               /\ UNCHANGED <<js, outerPromise>>
          [] job = "thenable" ->
               \* the promise of the resolver follows the wrapper promise
               /\ wrapperPromise' = ThenPromise(wrapperPromise, "react_wrapper")
               /\ microtasks' = rest \o ThenQueue(wrapperPromise, "react_wrapper")
               /\ UNCHANGED <<js, outerPromise>>
          [] job = "react_wrapper" ->
               /\ outerPromise' = Settled(outerPromise, wrapperPromise.status,
                                          wrapperPromise.value)
               /\ microtasks' = rest
               /\ UNCHANGED <<js, wrapperPromise>>
  /\ UNCHANGED <<args, fileReadable, pc, params, fileRead, engineInit, globals,
                 compiled, function_name, methodPromise, hostCalls, lastCall,
                 stdout, printed, exitCode, exitReason, bridge>>

\* the queue is empty: the call returns to run
CheckpointDone ==
  /\ pc \in {"checkpoint1", "checkpoint2"}
  /\ js = "none"
  /\ microtasks = <<>>
  /\ pc' = IF pc = "checkpoint1" THEN "resolve" ELSE "result"
  /\ UNCHANGED <<args, fileReadable, params, fileRead, engineInit, globals,
                 compiled, js, function_name, methodPromise, wrapperPromise,
                 outerPromise, microtasks, hostCalls, lastCall, stdout, printed,
                 exitCode, exitReason, bridge>>

\* run: PromiseResolver::new, resolver.resolve(scope, result) with result the
\* wrapper promise, a thenable: V8 queues the job that follows it
Resolve ==
  /\ pc = "resolve"
  /\ outerPromise' = PendingPromise
  /\ microtasks' = microtasks \o <<"thenable">>
  /\ pc' = "checkpoint2"
  /\ UNCHANGED <<args, fileReadable, params, fileRead, engineInit, globals,
                 compiled, js, function_name, methodPromise, wrapperPromise,
                 hostCalls, lastCall, stdout, printed, exitCode, exitReason,
                 bridge>>

\* run: promise.result(scope), to_string, println!.  V8 checks that the
\* promise is not pending and ends the process when it is.
PrintResult ==
  /\ pc = "result"
  /\ IF outerPromise.status = "pending"
     THEN /\ Exit(ExitAbort, "pending", <<>>)
          /\ UNCHANGED printed
     ELSE LET maybe_value == ValueToString(PromiseResult(outerPromise))
          IN /\ printed' = TRUE
             /\ Exit(ExitOk, "done",
                     IF maybe_value.some
                     THEN <<Line("{}", maybe_value.v)>>
                     ELSE <<Line("Promise did not resolve to a value.", <<>>)>>)
  /\ UNCHANGED <<args, fileReadable, params, fileRead, engineInit, globals,
                 compiled, function_name, methodPromise, wrapperPromise,
                 outerPromise, microtasks, hostCalls, lastCall, bridge>>

Next ==
  \/ Main
  \/ ReadFile
  \/ Bootstrap
  \/ InjectConsole
  \/ LoadPlugin
  \/ InjectRequest
  \/ Instantiate
  \/ DispatchVerb
  \/ Invoke
  \/ ScriptLog
  \/ ScriptRequest
  \/ ScriptCallsMissingRequest
  \/ ScriptReturn
  \/ ScriptThrow
  \/ MethodReturnsSettled
  \/ MethodReturnsPending
  \/ MethodThrows
  \/ ContSettles
  \/ ContAwaits
  \/ ContHangs
  \/ RunMicrotask
  \/ CheckpointDone
  \/ Resolve
  \/ PrintResult

Spec == Init /\ [][Next]_vars

-----------------------------------------------------------------------------
(* The request capability alone: one call of send_request_handler on every  *)
(* argument pair and transport outcome within the bounds                     *)

BridgeUrlArgs == {JSString(<<"u">>), JSSymbol}
BridgeMethodArgs == RequestMethodArgs \cup {JSSymbol}
BridgeTransports ==
  {TransportErr}
  \cup {TransportOk(st, h, b) : st \in {200, 404},
                                h \in SeqsUpTo(WireHeaders, MaxHeaders),
                                b \in {<<>>, <<"b">>}}

BridgeInit ==
  /\ args = <<Program>>
  /\ fileReadable = TRUE
  /\ pc = "bridge"
  /\ params = ParamsErr
  /\ fileRead = FALSE
  /\ engineInit = TRUE
  /\ globals = {"console", "request"}
  /\ compiled = <<>>
  /\ js = "method"
  /\ function_name = <<>>
  /\ methodPromise = NoPromise
  /\ wrapperPromise = NoPromise
  /\ outerPromise = NoPromise
  /\ microtasks = <<>>
  /\ hostCalls = 0
  /\ lastCall = NoCall
  /\ stdout = <<>>
  /\ printed = FALSE
  /\ exitCode = NoExit
  /\ exitReason = "none"
  /\ bridge \in {[BridgeIdle EXCEPT !.stage = "call", !.url = u, !.method = m,
                                    !.transport = t] :
                   u \in BridgeUrlArgs, m \in BridgeMethodArgs,
                   t \in BridgeTransports}

BridgeRequest ==
  /\ bridge.stage = "call"
  /\ LET r == SendRequestHandler(bridge.url, bridge.method, bridge.transport)
     IN bridge' = [bridge EXCEPT !.stage = IF r.panic THEN "panicked" ELSE "returned",
                                 !.panic = r.panic, !.ret = r.ret, !.out = r.out]
  /\ UNCHANGED <<args, fileReadable, pc, params, fileRead, engineInit, globals,
                 compiled, js, function_name, methodPromise, wrapperPromise,
                 outerPromise, microtasks, hostCalls, lastCall, stdout, printed,
                 exitCode, exitReason>>

BridgeNext == BridgeRequest

SpecBridge == BridgeInit /\ [][BridgeNext]_vars

-----------------------------------------------------------------------------
(* Properties *)

C1_Capabilities == {"console", "request"}

\* C1: no step that compiles or runs the plugin source happens while a host
\* capability is missing from the global object: whenever run is about to
\* compile the plugin source, or the plugin's top level is running, both
\* console and request are set on the global object.
C1_CapabilitiesBeforePlugin ==
  pc \in {"load", "loading"} => C1_Capabilities \subseteq globals

\* the JSON text the plugin data of the model must print as
C2_ExpectedText(id) ==
  CASE id = "null" -> <<"n","u","l","l">>
    [] id = "one" -> <<"1">>
    [] id = "x" -> <<"\"","x","\"">>
    [] id = "xy" -> <<"[","\"","x","\"",",","\"","y","\"","]">>
    [] id = "a1" -> <<"{","\"","a","\"",":","1","}">>

C2_Resolved ==
  /\ methodPromise.status = "fulfilled"
  /\ methodPromise.value.s[1] \in JsonIds

\* C2: when the method selected by the verb returned a promise that resolved
\* to a JSON value V, the process ends with status 0 after the final print,
\* the last line of standard output is exactly the JSON text of V, and no
\* line is the text form of a promise object.
C2_ResolvedValuePrinted ==
  (pc = "exit" /\ C2_Resolved) =>
    /\ printed
    /\ exitCode = 0
    /\ Last(stdout) = Line("{}", C2_ExpectedText(methodPromise.value.s[1]))
    /\ \A i \in 1..Len(stdout) : stdout[i].arg # Chars_ObjectPromise

\* a run of --search whose async method resolved, after an await, to {"a":1}
C2_Witness ==
  /\ pc = "exit"
  /\ printed
  /\ params.option = "--search"
  /\ hostCalls > 0
  /\ methodPromise.status = "fulfilled"
  /\ methodPromise.value.s[1] = "a1"
  /\ Last(stdout).arg = <<"{","\"","a","\"",":","1","}">>

C3_Unrecognized == Len(args) >= 3 /\ args[3] \notin Verbs

\* C3: a run whose verb is not one of the six options never reads the plugin
\* file, never initializes the engine and never compiles a script, and it
\* ends with an error line and exit status 1.
C3_UnrecognizedVerbNoScript ==
  C3_Unrecognized =>
    /\ ~fileRead
    /\ ~engineInit
    /\ compiled = <<>>
    /\ pc = "exit" => (exitCode = 1 /\ stdout # <<>>)

C4_NoUrl(verbs) == Len(args) = 3 /\ args[3] \in verbs

\* C4: with one of the five URL verbs and no URL argument the run ends with
\* the usage error and exit status 1, and never reads the plugin file,
\* initializes the engine or compiles a script; the dispatcher is never
\* reached with an absent URL for these verbs; --discover with no URL argument
\* passes argument validation.
C4_MissingUrlRejected ==
  /\ C4_NoUrl(UrlVerbs) =>
       /\ pc \in {"main", "exit"}
       /\ ~fileRead /\ ~engineInit /\ compiled = <<>>
       /\ pc = "exit" => (exitCode = 1 /\ stdout = <<Line("{}", <<"usage: chouten <filename> <option> <url?>">>)>>)
  /\ (pc = "dispatch" /\ params.option \in UrlVerbs) => params.url.some
  /\ (C4_NoUrl({"--discover"}) /\ pc # "main") =>
       (params.ok /\ ~params.url.some /\ exitReason # "usage")

C4_Witness ==
  /\ C4_NoUrl({"--info"})
  /\ pc = "exit"
  /\ exitCode = 1
  /\ ~fileRead

C5_ArgumentOrFileEnd == {"usage", "file", "url", "option"}

\* C5: the exit status is 0 for every run that reaches the final print, and 1
\* for every run that ends because of an argument-validation failure, a
\* missing or unreadable plugin file, a missing URL or an unrecognized verb.
C5_ExitStatus ==
  /\ printed => exitCode = 0
  /\ exitReason \in C5_ArgumentOrFileEnd => exitCode = 1

\* C5 as amended: 0 after the final print; 1 after an argument-validation
\* failure, a missing URL or an unrecognized verb; a plugin file that cannot
\* be read ends the run with a panic, whose status is neither 0 nor 1.
C5_ExitStatusAmended ==
  /\ printed => exitCode = 0
  /\ exitReason \in {"usage", "url", "option"} => exitCode = 1
  /\ exitReason = "file" => exitCode \in {101, 134}
  /\ exitCode = 0 => printed

C5_Witness ==
  /\ pc = "exit"
  /\ exitReason = "file"
  /\ ~fileReadable
  /\ exitCode = 101

C6_TransportFailed ==
  /\ bridge.stage # "call"
  /\ ValueToString(bridge.url).some
  /\ bridge.method \in {JSString(Chars_GET), JSString(Chars_POST)}
  /\ ~bridge.transport.ok

\* C6: a GET or POST whose transport fails returns to the script an object
\* with statusCode 500, body "Internal Server Error", an empty contentType and
\* no headers, and the host does not abort.
C6_DegradedResponse ==
  C6_TransportFailed =>
    /\ bridge.stage = "returned"
    /\ bridge.ret.statusCode = 500
    /\ bridge.ret.body = Chars_InternalServerError
    /\ bridge.ret.contentType = <<>>
    /\ DOMAIN bridge.ret.headers = {}

\* C6 as amended: the same, with contentType "text/plain".
C6_DegradedResponseAmended ==
  C6_TransportFailed =>
    /\ bridge.stage = "returned"
    /\ bridge.ret.statusCode = 500
    /\ bridge.ret.body = Chars_InternalServerError
    /\ bridge.ret.contentType = <<"t","e","x","t","/","p","l","a","i","n">>
    /\ DOMAIN bridge.ret.headers = {}

C6_Witness ==
  /\ C6_TransportFailed
  /\ bridge.stage = "returned"
  /\ bridge.method = JSString(Chars_POST)

\* C7: a call of console.log never fails or aborts the host, whatever value
\* is passed: the handler returns and the line is written.
C7_LogNeverFails ==
  lastCall.fn = "log" => (~lastCall.panic /\ exitReason # "callback")

\* C8: a run that reaches the final print has written exactly one line to
\* standard output.
C8_OneStdoutLine ==
  printed => Len(stdout) = 1

C9_Method(option) ==
  CASE option = "--search" -> <<"s","e","a","r","c","h">>
    [] option = "--info" -> <<"i","n","f","o">>
    [] option = "--media" -> <<"m","e","d","i","a">>
    [] option = "--servers" -> <<"s","e","r","v","e","r","s">>
    [] option = "--sources" -> <<"s","o","u","r","c","e","s">>

C9_Dispatched == function_name # <<>>

\* C9: for a URL verb the call expression is the verb's method name, an
\* opening parenthesis, a single quote, the URL argument as given, a single
\* quote and a closing parenthesis, and nothing else; for --discover it is
\* discover() whatever URL argument was given.
C9_CallExpression ==
  C9_Dispatched =>
    IF params.option = "--discover"
    THEN function_name = <<"d","i","s","c","o","v","e","r","(",")">>
    ELSE LET e == function_name
             m == C9_Method(params.option)
             u == args[4]
             n == Len(m)
         IN /\ params.option \in UrlVerbs
            /\ Len(e) = n + Len(u) + 4
            /\ SubSeq(e, 1, n) = m
            /\ e[n + 1] = "("
            /\ e[n + 2] = "'"
            /\ SubSeq(e, n + 3, n + 2 + Len(u)) = u
            /\ e[n + 3 + Len(u)] = "'"
            /\ e[n + 4 + Len(u)] = ")"

C9_Witness ==
  /\ pc = "invoke"
  /\ params.option = "--servers"
  /\ args[4] = <<"a">>
  /\ function_name = <<"s","e","r","v","e","r","s","(","'","a","'",")">>

\* the last header of the name in the order the transport delivered them
C10_LastOf(wire, name) ==
  wire[CHOOSE i \in 1..Len(wire) :
         /\ wire[i].name = name
         /\ \A j \in (i + 1)..Len(wire) : wire[j].name # name].value

C10_Succeeded == bridge.stage = "returned" /\ bridge.transport.ok

\* C10: after a successful GET or POST every header name delivered by the
\* transport is a key of the returned headers and maps to the original value
\* of the last header of that name.
C10_HeadersOriginal ==
  C10_Succeeded =>
    \A i \in 1..Len(bridge.transport.headers) :
      LET name == bridge.transport.headers[i].name
      IN /\ name \in DOMAIN bridge.ret.headers
         /\ bridge.ret.headers[name] =
              C10_LastOf(bridge.transport.headers, name).text

\* C10 as amended: the key maps to the text of the last header of that name
\* when that value is visible ASCII text, and to the empty string when it is
\* not; the mapping has no other keys.
C10_HeadersAmended ==
  C10_Succeeded =>
    /\ \A i \in 1..Len(bridge.transport.headers) :
         LET name == bridge.transport.headers[i].name
             last == C10_LastOf(bridge.transport.headers, name)
         IN /\ name \in DOMAIN bridge.ret.headers
            /\ bridge.ret.headers[name] = IF last.visible THEN last.text ELSE <<>>
    /\ DOMAIN bridge.ret.headers =
         {bridge.transport.headers[i].name : i \in 1..Len(bridge.transport.headers)}

\* a repeated name whose values differ
C10_Witness ==
  /\ C10_Succeeded
  /\ Len(bridge.transport.headers) = 2
  /\ bridge.transport.headers[1].name = "x-a"
  /\ bridge.transport.headers[2].name = "x-a"
  /\ bridge.transport.headers[1].value.text = <<"v">>
  /\ bridge.transport.headers[2].value.text = <<"w">>
  /\ bridge.ret.headers["x-a"] = <<"w">>

====
